---------------------------- MODULE Spec2Model ----------------------------
(***************************************************************************)
(* Model of pkg/query-service/rules/alerting.go: the notification          *)
(* debouncing decision of an Alert, the CompareOp / MatchType enumerations,*)
(* RuleCondition validation and query selection, the generator URL         *)
(* builder, and the JSON codec of Duration.  Strings are TLA+ strings;     *)
(* bytes are one-character strings.                                        *)
(***************************************************************************)
EXTENDS Integers, Sequences, FiniteSets, TLC

VARIABLES
    alert,        \* the Alert: [State, ResolvedAt, LastSentAt]
    resendDelay,  \* the rule's resend delay handed to needsSending
    now,          \* time of the latest evaluation cycle
    sendLog,      \* what the latest needsSending call saw and returned
    rc,           \* the *RuleCondition receiver: <<>> is nil, <<r>> points to r
    ret,          \* the latest call on rc and what it returned
    ruleId,       \* the rule id handed to prepareRuleGeneratorURL
    source,       \* the source URL handed to prepareRuleGeneratorURL
    generatorURL, \* whether prepareRuleGeneratorURL was called, and its result
    duration,     \* the Duration receiver of MarshalJSON, in nanoseconds
    bytes,        \* the JSON text handed to UnmarshalJSON
    target,       \* the Duration the receiver of UnmarshalJSON points to
    durLog        \* the latest call on a Duration and what it returned

vars == <<alert, resendDelay, now, sendLog, rc, ret, ruleId, source, generatorURL,
          duration, bytes, target, durLog>>
alertVars == <<alert, resendDelay, now, sendLog>>
condVars == <<rc, ret>>
urlVars == <<ruleId, source, generatorURL>>
durVars == <<duration, bytes, target, durLog>>

(***************************************************************************)
(* Bounds of the model.                                                    *)
(***************************************************************************)
MaxTime == 5
MaxDelay == 2
MaxQueries == 3

Times == 0..MaxTime
Delays == (0 - 1)..MaxDelay

(***************************************************************************)
(* Alert and needsSending.                                                 *)
(***************************************************************************)
StateInactive == "inactive"
StatePending == "pending"
StateFiring == "firing"
AlertStates == {StateInactive, StatePending, StateFiring}

\* time.Time.After, time.Time.Before, time.Time.Add on instants counted
\* from the zero time
After(t, u) == t > u
Before(t, u) == t < u
Add(t, d) == t + d

\* a variant of needsSending: the resend test admits the boundary instant
needsSendingAtBoundary(a, ts, delay) ==
    IF a.State = StatePending THEN FALSE
    ELSE IF After(a.ResolvedAt, a.LastSentAt) THEN TRUE
    ELSE ~After(Add(a.LastSentAt, delay), ts)

\* a variant of needsSending: the Pending guard is missing
needsSendingNoPendingGuard(a, ts, delay) ==
    IF After(a.ResolvedAt, a.LastSentAt) THEN TRUE
    ELSE Before(Add(a.LastSentAt, delay), ts)

needsSending(a, ts, delay) ==
    IF a.State = StatePending THEN FALSE
    ELSE IF After(a.ResolvedAt, a.LastSentAt) THEN TRUE
    ELSE Before(Add(a.LastSentAt, delay), ts)

NoCall == [fn |-> "none", panic |-> FALSE, err |-> [err |-> FALSE, msg |-> ""], value |-> ""]

IdleCondition ==
    /\ rc = <<>>
    /\ ret = NoCall

IdleURL ==
    /\ ruleId = ""
    /\ source = ""
    /\ generatorURL = [called |-> FALSE, value |-> ""]

NoDurationCall == [fn |-> "none", data |-> "", prev |-> "0", err |-> [err |-> FALSE, msg |-> ""]]

IdleDuration ==
    /\ duration = "0"
    /\ bytes = ""
    /\ target = "0"
    /\ durLog = NoDurationCall

InitAlert ==
    /\ IdleCondition
    /\ IdleURL
    /\ IdleDuration
    /\ alert \in [State : AlertStates, ResolvedAt : Times, LastSentAt : Times]
    /\ resendDelay \in Delays
    /\ now = 0
    /\ sendLog = [called |-> FALSE, seen |-> alert, ts |-> 0, result |-> FALSE,
                  sends |-> 0, prevSendAt |-> 0, lastSendAt |-> 0]

\* One evaluation cycle at time ts: the alert is offered to needsSending and,
\* when selected, is stamped with the cycle time as its LastSentAt.
\* sendLog keeps the alert as the call saw it, the number of selections so
\* far (counted up to 2) and the cycle times of the latest selection and of
\* the one before it.
SendAlerts(ts) ==
    /\ ts >= now
    /\ LET send == needsSending(alert, ts, resendDelay)
       IN /\ sendLog' = [called |-> TRUE,
                         seen |-> alert,
                         ts |-> ts,
                         result |-> send,
                         sends |-> IF send /\ sendLog.sends < 2
                                   THEN sendLog.sends + 1 ELSE sendLog.sends,
                         prevSendAt |-> IF send THEN sendLog.lastSendAt
                                        ELSE sendLog.prevSendAt,
                         lastSendAt |-> IF send THEN ts ELSE sendLog.lastSendAt]
          /\ alert' = IF send THEN [alert EXCEPT !.LastSentAt = ts] ELSE alert
    /\ now' = ts
    /\ UNCHANGED <<resendDelay, condVars, urlVars, durVars>>


(***************************************************************************)
(* Strings.                                                                *)
(***************************************************************************)
\* s[i], 1-based, as a one-character string
At(s, i) == SubSeq(s, i, i)

\* strings.HasPrefix
HasPrefix(s, p) == Len(s) >= Len(p) /\ SubSeq(s, 1, Len(p)) = p

\* strings.Contains
Contains(s, sub) ==
    \E i \in 1..(Len(s) - Len(sub) + 1) : SubSeq(s, i, i + Len(sub) - 1) = sub

(***************************************************************************)
(* Errors: a nil error, or an error carrying its message.                  *)
(***************************************************************************)
NilError == [err |-> FALSE, msg |-> ""]
Errorf(m) == [err |-> TRUE, msg |-> m]

ErrCompositeQueryRequired == Errorf("ErrCompositeQueryRequired")
ErrTargetRequired == Errorf("ErrTargetRequired")
ErrCompareOpRequired == Errorf("ErrCompareOpRequired")
ErrMatchTypeRequired == Errorf("ErrMatchTypeRequired")
\* what a composite query's own Validate returns when it rejects the query
ErrCompositeQueryInvalid == Errorf("invalid composite query")

(***************************************************************************)
(* CompareOp.                                                              *)
(***************************************************************************)
CompareOpNone == "0"
ValueIsAbove == "1"
ValueIsBelow == "2"
ValueIsEq == "3"
ValueIsNotEq == "4"
ValueAboveOrEq == "5"
ValueBelowOrEq == "6"
ValueOutsideBounds == "7"

supportedCompareOps ==
    <<CompareOpNone, ValueIsAbove, ValueIsBelow, ValueIsEq, ValueIsNotEq,
      ValueAboveOrEq, ValueBelowOrEq, ValueOutsideBounds>>

CompareOpString(co) ==
    CASE co = CompareOpNone -> "None: Enum value 0"
      [] co = ValueIsAbove -> "ValueIsAbove: Enum value 1"
      [] co = ValueIsBelow -> "ValueIsBelow: Enum value 2"
      [] co = ValueIsEq -> "ValueIsEq: Enum value 3"
      [] co = ValueIsNotEq -> "ValueIsNotEq: Enum value 4"
      [] co = ValueAboveOrEq -> "ValueAboveOrEq: Enum value 5"
      [] co = ValueBelowOrEq -> "ValueBelowOrEq: Enum value 6"
      [] co = ValueOutsideBounds -> "ValueOutsideBounds: Enum value 7"
      [] OTHER -> "Unknown: Enum value"

\* the loop of CompareOp.Validate: msg += op.String() + ", "
RECURSIVE CompareOpMsg(_)
CompareOpMsg(n) ==
    IF n = 0 THEN ""
    ELSE CompareOpMsg(n - 1) \o CompareOpString(supportedCompareOps[n]) \o ", "

CompareOpValidate(co) ==
    IF co \in {ValueIsAbove, ValueIsBelow, ValueIsEq, ValueIsNotEq,
               ValueAboveOrEq, ValueBelowOrEq, ValueOutsideBounds}
    THEN NilError
    ELSE Errorf("invalid compare op: " \o co \o " supported ops are "
                \o CompareOpMsg(Len(supportedCompareOps)))

(***************************************************************************)
(* MatchType.                                                              *)
(***************************************************************************)
MatchTypeNone == "0"
AtleastOnce == "1"
AllTheTimes == "2"
OnAverage == "3"
InTotal == "4"
Last == "5"

supportedMatchTypes ==
    <<MatchTypeNone, AtleastOnce, AllTheTimes, OnAverage, InTotal, Last>>

MatchTypeString(mt) ==
    CASE mt = MatchTypeNone -> "None: Enum value 0"
      [] mt = AtleastOnce -> "AtleastOnce: Enum value 1"
      [] mt = AllTheTimes -> "AllTheTimes: Enum value 2"
      [] mt = OnAverage -> "OnAverage: Enum value 3"
      [] mt = InTotal -> "InTotal: Enum value 4"
      [] mt = Last -> "Last: Enum value 5"
      [] OTHER -> "Unknown: Enum value"

\* the loop of MatchType.Validate: msg += op.String() + ", "
RECURSIVE MatchTypeMsg(_)
MatchTypeMsg(n) ==
    IF n = 0 THEN ""
    ELSE MatchTypeMsg(n - 1) \o MatchTypeString(supportedMatchTypes[n]) \o ", "

MatchTypeValidate(mt) ==
    IF mt \in {MatchTypeNone, AtleastOnce, AllTheTimes, OnAverage, InTotal, Last}
    THEN NilError
    ELSE Errorf("invalid match type: " \o mt \o " supported ops are "
                \o MatchTypeMsg(Len(supportedMatchTypes)))


(***************************************************************************)
(* Byte order of strings, and sort.Strings.                                *)
(***************************************************************************)
Digits == "0123456789"
UpperCase == "ABCDEFGHIJKLMNOPQRSTUVWXYZ"
LowerCase == "abcdefghijklmnopqrstuvwxyz"

\* strings.IndexByte + 1: the first position of byte c in s, 0 when absent
IndexOf(s, c) ==
    IF \E i \in 1..Len(s) : At(s, i) = c
    THEN CHOOSE i \in 1..Len(s) : At(s, i) = c /\ \A j \in 1..(i - 1) : At(s, j) # c
    ELSE 0

\* the byte value of a one-character string (letters, digits and the
\* punctuation the model's strings use)
Code(c) ==
    CASE IndexOf(Digits, c) > 0 -> 47 + IndexOf(Digits, c)
      [] IndexOf(UpperCase, c) > 0 -> 64 + IndexOf(UpperCase, c)
      [] IndexOf(LowerCase, c) > 0 -> 96 + IndexOf(LowerCase, c)
      [] c = " " -> 32
      [] c = "_" -> 95

\* a < b for Go strings: byte-wise lexicographic order
RECURSIVE StringLess(_, _)
StringLess(a, b) ==
    IF Len(b) = 0 THEN FALSE
    ELSE IF Len(a) = 0 THEN TRUE
    ELSE IF At(a, 1) = At(b, 1)
         THEN StringLess(SubSeq(a, 2, Len(a)), SubSeq(b, 2, Len(b)))
         ELSE Code(At(a, 1)) < Code(At(b, 1))

RECURSIVE InsertSorted(_, _)
InsertSorted(sorted, k) ==
    IF sorted = <<>> THEN <<k>>
    ELSE IF StringLess(k, Head(sorted)) THEN <<k>> \o sorted
    ELSE <<Head(sorted)>> \o InsertSorted(Tail(sorted), k)

\* sort.Strings: the keys in ascending order
RECURSIVE SortStrings(_)
SortStrings(keys) ==
    IF keys = <<>> THEN <<>>
    ELSE InsertSorted(SortStrings(Tail(keys)), Head(keys))

(***************************************************************************)
(* RuleCondition.                                                          *)
(***************************************************************************)
QueryTypeUnknown == "unknown"
QueryTypeBuilder == "builder"
QueryTypeClickHouseSQL == "clickhouse_sql"
QueryTypePromQL == "promql"
QueryTypes == {QueryTypeUnknown, QueryTypeBuilder, QueryTypeClickHouseSQL, QueryTypePromQL}

\* rc.QueryType() on a non-nil receiver r
QueryType(r) ==
    IF r.CompositeQuery # <<>> THEN r.CompositeQuery[1].QueryType
    ELSE QueryTypeUnknown

\* rc.CompositeQuery.Validate(): the composite query's own verdict, which the
\* query carries as Validation
CompositeQueryValidate(cq) == cq.Validation

\* a variant of RuleCondition.Validate: Target, CompareOp and MatchType are
\* demanded whatever the query type
RuleConditionValidateAlwaysRequires(r) ==
    IF r.CompositeQuery = <<>> THEN ErrCompositeQueryRequired
    ELSE IF r.Target = <<>> THEN ErrTargetRequired
    ELSE IF r.CompareOp = "" THEN ErrCompareOpRequired
    ELSE IF CompareOpValidate(r.CompareOp).err THEN CompareOpValidate(r.CompareOp)
    ELSE IF r.MatchType = "" THEN ErrMatchTypeRequired
    ELSE IF MatchTypeValidate(r.MatchType).err THEN MatchTypeValidate(r.MatchType)
    ELSE CompositeQueryValidate(r.CompositeQuery[1])

\* rc.Validate() on a non-nil receiver r
RuleConditionValidate(r) ==
    IF r.CompositeQuery = <<>> THEN ErrCompositeQueryRequired
    ELSE IF QueryType(r) = QueryTypeBuilder /\ r.Target = <<>>
         THEN ErrTargetRequired
    ELSE IF QueryType(r) = QueryTypeBuilder /\ r.CompareOp = ""
         THEN ErrCompareOpRequired
    ELSE IF QueryType(r) = QueryTypeBuilder /\ CompareOpValidate(r.CompareOp).err
         THEN CompareOpValidate(r.CompareOp)
    ELSE IF QueryType(r) = QueryTypeBuilder /\ r.MatchType = ""
         THEN ErrMatchTypeRequired
    ELSE IF QueryType(r) = QueryTypeBuilder /\ MatchTypeValidate(r.MatchType).err
         THEN MatchTypeValidate(r.MatchType)
    ELSE CompositeQueryValidate(r.CompositeQuery[1])

\* the names GetSelectedQueryName collects into queryNames
QueryNames(r) ==
    IF r.CompositeQuery = <<>> THEN {}
    ELSE IF QueryType(r) = QueryTypeBuilder THEN r.CompositeQuery[1].BuilderQueries
    ELSE IF QueryType(r) = QueryTypeClickHouseSQL THEN r.CompositeQuery[1].ClickHouseQueries
    ELSE {}

\* the outcome of a call: it returns a value, or panics
Returns(v) == [panic |-> FALSE, value |-> v]
Panics == [panic |-> TRUE, value |-> ""]

\* a variant of GetSelectedQueryName: the first key of the sorted names is
\* returned instead of the last
GetSelectedQueryNameFirst(p, keys) ==
    IF p # <<>> THEN
        IF p[1].SelectedQuery # "" THEN Returns(p[1].SelectedQuery)
        ELSE IF "F1" \in QueryNames(p[1]) THEN Returns("F1")
        ELSE IF Len(keys) = 0 THEN Panics
        ELSE Returns(SortStrings(keys)[1])
    ELSE Returns("")

\* rc.GetSelectedQueryName() on the receiver p (<<>> is nil); keys lists the
\* collected names in the order the map iteration yields them
GetSelectedQueryName(p, keys) ==
    IF p # <<>> THEN
        IF p[1].SelectedQuery # "" THEN Returns(p[1].SelectedQuery)
        ELSE IF "F1" \in QueryNames(p[1]) THEN Returns("F1")
        ELSE IF Len(keys) - 1 < 0 THEN Panics      \* keys[len(keys)-1] out of range
        ELSE Returns(SortStrings(keys)[Len(keys)])
    ELSE Returns("")


(***************************************************************************)
(* Calls on a RuleCondition.                                               *)
(***************************************************************************)
CompareOpInputs == {"", "0", "1", "2", "3", "4", "5", "6", "7", "8", "above"}
MatchTypeInputs == {"", "0", "1", "2", "3", "4", "5", "6", "last"}
TargetInputs == {<<>>, <<0>>}
QueryNameInputs == {"A", "C", "F1", "F2", "F10", "a"}
SelectedQueryInputs == {"", "F2", "A"}

QueryMaps == {m \in SUBSET QueryNameInputs : Cardinality(m) <= MaxQueries}

\* conditions that differ in what Validate reads
ValidateInputs ==
    [CompositeQuery : {<<>>} \cup
                      {<<cq>> : cq \in [QueryType : QueryTypes,
                                        BuilderQueries : {{}},
                                        ClickHouseQueries : {{}},
                                        Validation : {NilError, ErrCompositeQueryInvalid}]},
     CompareOp : CompareOpInputs,
     Target : TargetInputs,
     MatchType : MatchTypeInputs,
     SelectedQuery : {""}]

\* conditions that differ in what GetSelectedQueryName reads
SelectInputs ==
    [CompositeQuery : {<<>>} \cup
                      {<<cq>> : cq \in [QueryType : QueryTypes,
                                        BuilderQueries : QueryMaps,
                                        ClickHouseQueries : QueryMaps,
                                        Validation : {NilError}]},
     CompareOp : {ValueIsAbove},
     Target : {<<0>>},
     MatchType : {AtleastOnce},
     SelectedQuery : SelectedQueryInputs]

IdleAlert ==
    /\ alert = [State |-> StateInactive, ResolvedAt |-> 0, LastSentAt |-> 0]
    /\ resendDelay = 0
    /\ now = 0
    /\ sendLog = [called |-> FALSE, seen |-> alert, ts |-> 0, result |-> FALSE,
                  sends |-> 0, prevSendAt |-> 0, lastSendAt |-> 0]

InitCondition ==
    /\ IdleAlert
    /\ IdleURL
    /\ IdleDuration
    /\ rc \in {<<>>} \cup {<<r>> : r \in ValidateInputs \cup SelectInputs}
    /\ ret = NoCall

\* rc.CompareOp.Validate()
CallCompareOpValidate ==
    /\ rc # <<>>
    /\ ret' = [fn |-> "CompareOp.Validate", panic |-> FALSE,
               err |-> CompareOpValidate(rc[1].CompareOp), value |-> ""]
    /\ UNCHANGED <<alertVars, rc, urlVars, durVars>>

\* rc.MatchType.Validate()
CallMatchTypeValidate ==
    /\ rc # <<>>
    /\ ret' = [fn |-> "MatchType.Validate", panic |-> FALSE,
               err |-> MatchTypeValidate(rc[1].MatchType), value |-> ""]
    /\ UNCHANGED <<alertVars, rc, urlVars, durVars>>

\* rc.Validate(); a nil receiver is dereferenced at rc.CompositeQuery
CallValidate ==
    /\ ret' = IF rc = <<>>
              THEN [fn |-> "RuleCondition.Validate", panic |-> TRUE,
                    err |-> NilError, value |-> ""]
              ELSE [fn |-> "RuleCondition.Validate", panic |-> FALSE,
                    err |-> RuleConditionValidate(rc[1]), value |-> ""]
    /\ UNCHANGED <<alertVars, rc, urlVars, durVars>>

\* the orders in which a map iteration can yield the names of m
KeyOrders(m) ==
    {k \in [1..Cardinality(m) -> m] : \A n \in m : \E i \in 1..Cardinality(m) : k[i] = n}

\* rc.GetSelectedQueryName()
CallGetSelectedQueryName ==
    /\ \E keys \in KeyOrders(IF rc = <<>> THEN {} ELSE QueryNames(rc[1])) :
          LET out == GetSelectedQueryName(rc, keys)
          IN ret' = [fn |-> "RuleCondition.GetSelectedQueryName", panic |-> out.panic,
                     err |-> NilError, value |-> out.value]
    /\ UNCHANGED <<alertVars, rc, urlVars, durVars>>

(***************************************************************************)
(* Go string slicing and searching (indices are 0-based, as in Go).        *)
(***************************************************************************)
\* s[lo:hi] and s[lo:]
Slice(s, lo, hi) == SubSeq(s, lo + 1, hi)
SliceFrom(s, lo) == SubSeq(s, lo + 1, Len(s))

\* strings.HasSuffix
HasSuffix(s, x) == Len(s) >= Len(x) /\ SliceFrom(s, Len(s) - Len(x)) = x

\* strings.Index: the first index of sub in s, -1 when absent
RECURSIVE IndexFrom(_, _, _)
IndexFrom(s, sub, i) ==
    IF i + Len(sub) > Len(s) THEN -1
    ELSE IF Slice(s, i, i + Len(sub)) = sub THEN i
    ELSE IndexFrom(s, sub, i + 1)
Index(s, sub) == IndexFrom(s, sub, 0)

\* strings.LastIndex: the last index of sub in s, -1 when absent
RECURSIVE LastIndexFrom(_, _, _)
LastIndexFrom(s, sub, i) ==
    IF i < 0 THEN -1
    ELSE IF Slice(s, i, i + Len(sub)) = sub THEN i
    ELSE LastIndexFrom(s, sub, i - 1)
LastIndex(s, sub) == LastIndexFrom(s, sub, Len(s) - Len(sub))

\* strings.Cut: <<before, after>>, <<s, "">> when sep is absent
Cut(s, sep) ==
    IF Index(s, sep) >= 0
    THEN <<Slice(s, 0, Index(s, sep)), SliceFrom(s, Index(s, sep) + Len(sep))>>
    ELSE <<s, "">>

\* strings.Count of a single byte
Count(s, c) == Cardinality({i \in 1..Len(s) : At(s, i) = c})

IsLetter(c) == IndexOf(LowerCase, c) > 0 \/ IndexOf(UpperCase, c) > 0
IsDigit(c) == IndexOf(Digits, c) > 0
IsHex(c) == IndexOf("0123456789abcdefABCDEF", c) > 0

\* strings.ToLower on ASCII
RECURSIVE ToLower(_)
ToLower(s) ==
    IF s = "" THEN ""
    ELSE (IF IndexOf(UpperCase, At(s, 1)) > 0
          THEN At(LowerCase, IndexOf(UpperCase, At(s, 1)))
          ELSE At(s, 1)) \o ToLower(SliceFrom(s, 1))

(***************************************************************************)
(* net/url: Parse, Hostname, Port, as prepareRuleGeneratorURL uses them.   *)
(***************************************************************************)
\* the control bytes the model's strings hold
ControlBytes == {"\t", "\n", "\r"}
stringContainsCTLByte(s) == \E i \in 1..Len(s) : At(s, i) \in ControlBytes

\* getScheme: the leading "scheme:" of rawURL, if it has one
RECURSIVE getSchemeFrom(_, _)
getSchemeFrom(rawURL, i) ==
    IF i >= Len(rawURL) THEN [scheme |-> "", path |-> rawURL, err |-> FALSE]
    ELSE IF IsLetter(At(rawURL, i + 1)) THEN getSchemeFrom(rawURL, i + 1)
    ELSE IF IsDigit(At(rawURL, i + 1)) \/ At(rawURL, i + 1) \in {"+", "-", "."}
         THEN IF i = 0 THEN [scheme |-> "", path |-> rawURL, err |-> FALSE]
              ELSE getSchemeFrom(rawURL, i + 1)
    ELSE IF At(rawURL, i + 1) = ":"
         THEN IF i = 0 THEN [scheme |-> "", path |-> "", err |-> TRUE]
              ELSE [scheme |-> Slice(rawURL, 0, i),
                    path |-> SliceFrom(rawURL, i + 1), err |-> FALSE]
    ELSE [scheme |-> "", path |-> rawURL, err |-> FALSE]
getScheme(rawURL) == getSchemeFrom(rawURL, 0)

\* validOptionalPort: "" or ":" followed by digits only
validOptionalPort(port) ==
    \/ port = ""
    \/ At(port, 1) = ":" /\ \A i \in 2..Len(port) : IsDigit(At(port, i))

\* unescape fails on a "%" not followed by two hex digits
badEscape(s) ==
    \E i \in 1..Len(s) :
        At(s, i) = "%" /\ ~(i + 2 <= Len(s) /\ IsHex(At(s, i + 1)) /\ IsHex(At(s, i + 2)))

\* the bytes a host may hold unescaped (shouldEscape in host mode)
hostByteOK(c) ==
    IsLetter(c) \/ IsDigit(c) \/ IndexOf("!$&'()*+,;=:[]<>\"-_.~", c) > 0

\* unescape in host mode fails on a malformed escape, on an escape of a byte
\* below 0x80 other than "%25", and on a byte a host may not hold
badHost(host) ==
    \/ badEscape(host)
    \/ \E i \in 1..Len(host) :
          /\ At(host, i) = "%"
          /\ IndexOf("01234567", At(host, i + 1)) > 0
          /\ Slice(host, i - 1, i + 2) # "%25"
    \/ \E i \in 1..Len(host) : At(host, i) # "%" /\ ~hostByteOK(At(host, i))

\* validUserinfo
validUserinfo(u) ==
    \A i \in 1..Len(u) :
        IsLetter(At(u, i)) \/ IsDigit(At(u, i))
            \/ IndexOf("-._:~!$&'()*+,;=%@", At(u, i)) > 0

\* parseHost: the host[:port] of an authority, checked
parseHost(host) ==
    IF HasPrefix(host, "[")
    THEN IF LastIndex(host, "]") < 0 THEN [err |-> TRUE, host |-> ""]
         ELSE IF ~validOptionalPort(SliceFrom(host, LastIndex(host, "]") + 1))
              THEN [err |-> TRUE, host |-> ""]
         ELSE IF badHost(host) THEN [err |-> TRUE, host |-> ""]
         ELSE [err |-> FALSE, host |-> host]
    ELSE IF LastIndex(host, ":") # -1 /\ ~validOptionalPort(SliceFrom(host, LastIndex(host, ":")))
         THEN [err |-> TRUE, host |-> ""]
    ELSE IF badHost(host) THEN [err |-> TRUE, host |-> ""]
    ELSE [err |-> FALSE, host |-> host]

\* parseAuthority: [userinfo@]host[:port]
parseAuthority(authority) ==
    IF LastIndex(authority, "@") < 0 THEN parseHost(authority)
    ELSE IF parseHost(SliceFrom(authority, LastIndex(authority, "@") + 1)).err
         THEN [err |-> TRUE, host |-> ""]
    ELSE IF ~validUserinfo(Slice(authority, 0, LastIndex(authority, "@")))
            \/ badEscape(Slice(authority, 0, LastIndex(authority, "@")))
         THEN [err |-> TRUE, host |-> ""]
    ELSE parseHost(SliceFrom(authority, LastIndex(authority, "@") + 1))

ParseError == [err |-> TRUE, Scheme |-> "", Host |-> ""]
Parsed(scheme, host) == [err |-> FALSE, Scheme |-> scheme, Host |-> host]

\* the part of parse after the scheme and the query are split off: rest is
\* what is left of the URL, scheme is lower-cased
parseRest(scheme, rest) ==
    IF ~HasPrefix(rest, "/") /\ scheme # "" THEN Parsed(scheme, "")   \* opaque
    ELSE IF ~HasPrefix(rest, "/") /\ Contains(Cut(rest, "/")[1], ":")
         THEN ParseError     \* first path segment in URL cannot contain colon
    ELSE IF (scheme # "" \/ ~HasPrefix(rest, "///")) /\ HasPrefix(rest, "//")
         THEN LET authEnd == Index(SliceFrom(rest, 2), "/")
                  authority == IF authEnd >= 0 THEN Slice(SliceFrom(rest, 2), 0, authEnd)
                               ELSE SliceFrom(rest, 2)
                  path == IF authEnd >= 0 THEN SliceFrom(SliceFrom(rest, 2), authEnd)
                          ELSE ""
              IN IF parseAuthority(authority).err THEN ParseError
                 ELSE IF badEscape(path) THEN ParseError
                 ELSE Parsed(scheme, parseAuthority(authority).host)
    ELSE IF badEscape(rest) THEN ParseError
    ELSE Parsed(scheme, "")

\* parse(rawURL, viaRequest = false): rawURL has no fragment
parse(rawURL) ==
    IF stringContainsCTLByte(rawURL) THEN ParseError
    ELSE IF rawURL = "*" THEN Parsed("", "")
    ELSE IF getScheme(rawURL).err THEN ParseError
    ELSE LET scheme == ToLower(getScheme(rawURL).scheme)
             rest == getScheme(rawURL).path
         IN IF HasSuffix(rest, "?") /\ Count(rest, "?") = 1
            THEN parseRest(scheme, Slice(rest, 0, Len(rest) - 1))
            ELSE parseRest(scheme, Cut(rest, "?")[1])

\* url.Parse: the fragment is cut off and checked after the rest parsed
Parse(rawURL) ==
    IF parse(Cut(rawURL, "#")[1]).err THEN ParseError
    ELSE IF badEscape(Cut(rawURL, "#")[2]) THEN ParseError
    ELSE parse(Cut(rawURL, "#")[1])

\* splitHostPort: <<host, port>> of u.Host, the brackets of an IPv6 literal
\* removed
splitHostPort(hostPort) ==
    LET colon == LastIndex(hostPort, ":")
        split == colon # -1 /\ validOptionalPort(SliceFrom(hostPort, colon))
        host == IF split THEN Slice(hostPort, 0, colon) ELSE hostPort
        port == IF split THEN SliceFrom(hostPort, colon + 1) ELSE ""
    IN <<IF HasPrefix(host, "[") /\ HasSuffix(host, "]")
         THEN Slice(host, 1, Len(host) - 1) ELSE host,
         port>>

Hostname(u) == splitHostPort(u.Host)[1]
Port(u) == splitHostPort(u.Host)[2]

(***************************************************************************)
(* prepareRuleGeneratorURL.                                                *)
(***************************************************************************)
\* a variant of prepareRuleGeneratorURL: the first occurrence of "new" is
\* replaced instead of the last
prepareRuleGeneratorURLFirstNew(id, src) ==
    IF src = "" THEN src
    ELSE IF Parse(src).err THEN ""
    ELSE IF Index(src, "new") > -1
         THEN Slice(src, 0, Index(src, "new")) \o "edit?ruleId=" \o id
    ELSE IF Port(Parse(src)) # ""
         THEN Parse(src).Scheme \o "://" \o Hostname(Parse(src)) \o ":"
                  \o Port(Parse(src)) \o "/alerts/edit?ruleId=" \o id
    ELSE Parse(src).Scheme \o "://" \o Hostname(Parse(src))
             \o "/alerts/edit?ruleId=" \o id

prepareRuleGeneratorURL(id, src) ==
    IF src = "" THEN src
    ELSE IF Parse(src).err THEN ""
    ELSE IF LastIndex(src, "new") > -1
         THEN Slice(src, 0, LastIndex(src, "new")) \o "edit?ruleId=" \o id
    ELSE IF Port(Parse(src)) # ""
         THEN Parse(src).Scheme \o "://" \o Hostname(Parse(src)) \o ":"
                  \o Port(Parse(src)) \o "/alerts/edit?ruleId=" \o id
    ELSE Parse(src).Scheme \o "://" \o Hostname(Parse(src))
             \o "/alerts/edit?ruleId=" \o id

(***************************************************************************)
(* Calls of prepareRuleGeneratorURL.                                       *)
(***************************************************************************)
RuleIdInputs == {"r1", "renew"}

SchemeInputs == {"http", "https", "HTTP"}
HostInputs == {"host", "app.example.com", "news.io"}
PortInputs == {"", "3301"}
\* what follows the host: nothing, a port, or a colon without a port
AfterHost(port, bare) == IF port # "" THEN ":" \o port ELSE IF bare THEN ":" ELSE ""
PathInputs == {"", "/alerts/new", "/alerts/list", "/renew/alerts/new"}
QueryInputs == {"", "?x=1", "?q=new"}
FragmentInputs == {"", "#top"}

\* absolute URLs put together from their parts, each with the scheme (as a
\* URL's scheme reads: in lower case), host and port it was built from
BuiltSources ==
    {[source |-> sch \o "://" \o h \o AfterHost(p, bare) \o path \o q \o f,
      scheme |-> IF sch = "HTTP" THEN "http" ELSE sch,
      host |-> h,
      port |-> p] :
        sch \in SchemeInputs, h \in HostInputs, p \in PortInputs, bare \in BOOLEAN,
        path \in PathInputs, q \in QueryInputs, f \in FragmentInputs}

\* further sources url.Parse accepts, each with its scheme, host and port
OtherSources ==
    {[source |-> "http://[::1]:8080/alerts/list", scheme |-> "http", host |-> "::1", port |-> "8080"],
     [source |-> "http://user@host:3301/alerts/list", scheme |-> "http", host |-> "host", port |-> "3301"],
     [source |-> "https://Host.example.com/alerts/list?x=1", scheme |-> "https", host |-> "Host.example.com", port |-> ""],
     [source |-> "//host/alerts/list", scheme |-> "", host |-> "host", port |-> ""],
     [source |-> "/alerts/list", scheme |-> "", host |-> "", port |-> ""],
     [source |-> "/alerts/new", scheme |-> "", host |-> "", port |-> ""],
     [source |-> "mailto:ops@example.com", scheme |-> "mailto", host |-> "", port |-> ""],
     [source |-> "*", scheme |-> "", host |-> "", port |-> ""],
     [source |-> "not a url", scheme |-> "", host |-> "", port |-> ""]}

\* sources url.Parse rejects: a space in the host, a port that is no number,
\* no scheme before the colon, a colon in the first segment of a relative
\* path, a malformed escape, a control byte, an unclosed bracket
RejectedSources ==
    {"http://ho st/alerts/list", "http://ho st/alerts/new",
     "http://host:port/alerts/list", ":3301/alerts/list", "3301:alerts/list",
     "http://host/alerts/a%zz", "http://host/alerts/list#%z",
     "http://host/alerts\tlist", "http://[::1/alerts/list", "http://host/new%"}

SourceInputs ==
    {""} \cup {e.source : e \in BuiltSources \cup OtherSources} \cup RejectedSources

InitURL ==
    /\ IdleAlert
    /\ IdleCondition
    /\ IdleDuration
    /\ ruleId \in RuleIdInputs
    /\ source \in SourceInputs
    /\ generatorURL = [called |-> FALSE, value |-> ""]

\* prepareRuleGeneratorURL(ruleId, source)
CallPrepareRuleGeneratorURL ==
    /\ generatorURL' = [called |-> TRUE, value |-> prepareRuleGeneratorURL(ruleId, source)]
    /\ UNCHANGED <<alertVars, condVars, ruleId, source, durVars>>

NextURL == CallPrepareRuleGeneratorURL

(***************************************************************************)
(* Integers beyond the range of the checker's machine integers: a natural  *)
(* number is its decimal digits without leading zeros ("0" is zero), an    *)
(* int64 is a natural or "-" followed by a positive natural.               *)
(***************************************************************************)
DigitVal(c) == IndexOf(Digits, c) - 1
DigitChar(n) == At(Digits, n + 1)

RECURSIVE Zeros(_)
Zeros(n) == IF n <= 0 THEN "" ELSE "0" \o Zeros(n - 1)

RECURSIVE TrimZeros(_)
TrimZeros(a) ==
    IF Len(a) > 1 /\ At(a, 1) = "0" THEN TrimZeros(SubSeq(a, 2, Len(a))) ELSE a

\* the decimal digits of a machine integer n >= 0
RECURSIVE NatString(_)
NatString(n) ==
    IF n < 10 THEN DigitChar(n) ELSE NatString(n \div 10) \o DigitChar(n % 10)

\* a > b on naturals
GreaterNat(a, b) ==
    \/ Len(a) > Len(b)
    \/ Len(a) = Len(b) /\ StringLess(b, a)

\* a + b on digit strings of one length, with a carry in
RECURSIVE AddPadded(_, _, _)
AddPadded(a, b, carry) ==
    IF a = "" THEN (IF carry = 0 THEN "" ELSE DigitChar(carry))
    ELSE LET t == DigitVal(At(a, Len(a))) + DigitVal(At(b, Len(b))) + carry
         IN AddPadded(SubSeq(a, 1, Len(a) - 1), SubSeq(b, 1, Len(b) - 1), t \div 10)
                \o DigitChar(t % 10)

\* a + b on naturals
AddNat(a, b) ==
    TrimZeros(AddPadded(Zeros(Len(b) - Len(a)) \o a, Zeros(Len(a) - Len(b)) \o b, 0))

\* a * k + carry on a natural a and machine integers k, carry
RECURSIVE MulSmallCarry(_, _, _)
MulSmallCarry(a, k, carry) ==
    IF a = "" THEN (IF carry = 0 THEN "" ELSE NatString(carry))
    ELSE LET t == DigitVal(At(a, Len(a))) * k + carry
         IN MulSmallCarry(SubSeq(a, 1, Len(a) - 1), k, t \div 10) \o DigitChar(t % 10)
MulSmall(a, k) == TrimZeros("0" \o MulSmallCarry(a, k, 0))

\* <<a div k, a mod k>> on a natural a and a machine integer k, by long
\* division; the remainder is a machine integer
RECURSIVE DivSmallFrom(_, _, _)
DivSmallFrom(a, k, rem) ==
    IF a = "" THEN <<"", rem>>
    ELSE LET t == rem * 10 + DigitVal(At(a, 1))
             rest == DivSmallFrom(SubSeq(a, 2, Len(a)), k, t % k)
         IN <<DigitChar(t \div k) \o rest[1], rest[2]>>
DivSmall(a, k) == <<TrimZeros(DivSmallFrom(a, k, 0)[1]), DivSmallFrom(a, k, 0)[2]>>

\* int64: sign and magnitude
IsNegative(d) == HasPrefix(d, "-")
Magnitude(d) == IF IsNegative(d) THEN SubSeq(d, 2, Len(d)) ELSE d
Negate(u) == IF u = "0" THEN u ELSE "-" \o u

\* 1 << 63
TwoTo63 == "9223372036854775808"

(***************************************************************************)
(* float64: the value a decimal integer literal is read as.                *)
(***************************************************************************)
\* 1 << 53: a float64 holds every natural below it in its significand
TwoTo53 == "9007199254740992"

\* how many low bits of a natural do not fit a float64 significand
RECURSIVE ExcessBits(_)
ExcessBits(a) ==
    IF GreaterNat(TwoTo53, a) THEN 0 ELSE 1 + ExcessBits(DivSmall(a, 2)[1])

\* 2^n as a machine integer
RECURSIVE Pow2(_)
Pow2(n) == IF n = 0 THEN 1 ELSE 2 * Pow2(n - 1)

\* strconv.ParseFloat on a natural below 2^64: the nearest float64, ties to
\* the even significand.  The bits beyond the significand are cut off by a
\* division, and the float64, an integer, is given as a natural.
RoundToFloat64(a) ==
    LET round(kept, cut, half) ==
            IF cut > half \/ (cut = half /\ DigitVal(At(kept, Len(kept))) % 2 = 1)
            THEN MulSmall(AddNat(kept, "1"), 2 * half)
            ELSE MulSmall(kept, 2 * half)
        cutOff(q, drop) == round(q[1], q[2], Pow2(drop - 1))
        excess(drop) == IF drop = 0 THEN a ELSE cutOff(DivSmall(a, Pow2(drop)), drop)
    IN excess(ExcessBits(a))

(***************************************************************************)
(* time.Duration: String and ParseDuration.  A Duration is an int64 count  *)
(* of nanoseconds.                                                         *)
(***************************************************************************)
RECURSIVE TrimTrailingZeros(_)
TrimTrailingZeros(a) ==
    IF a # "" /\ At(a, Len(a)) = "0" THEN TrimTrailingZeros(SubSeq(a, 1, Len(a) - 1))
    ELSE a

\* v / 10^prec on a natural v
DropDigits(v, prec) == IF Len(v) > prec THEN SubSeq(v, 1, Len(v) - prec) ELSE "0"

\* fmtFrac: the fraction of v / 10^prec, without its trailing zeros, after a
\* decimal point; nothing when the fraction is zero
fmtFrac(v, prec) ==
    LET digits == TrimTrailingZeros(
                      SubSeq(Zeros(prec - Len(v)) \o v,
                             Len(Zeros(prec - Len(v)) \o v) - prec + 1,
                             Len(Zeros(prec - Len(v)) \o v)))
    IN IF digits = "" THEN "" ELSE "." \o digits

\* Duration.String: "0s", a single unit below one second ("1.5ms"), and
\* hours, minutes and seconds from one second on ("1h0m0.5s")
DurationString(d) ==
    LET u == Magnitude(d)
        sign == IF IsNegative(d) THEN "-" ELSE ""
        secs == DropDigits(u, 9)
        mins == DivSmall(secs, 60)[1]
        hours == DivSmall(mins, 60)[1]
    IN IF Len(u) <= 9
       THEN IF u = "0" THEN "0s"
            ELSE IF Len(u) <= 3 THEN sign \o u \o "ns"
            ELSE IF Len(u) <= 6 THEN sign \o DropDigits(u, 3) \o fmtFrac(u, 3) \o "µs"
            ELSE sign \o DropDigits(u, 6) \o fmtFrac(u, 6) \o "ms"
       ELSE sign
            \o (IF hours # "0" THEN hours \o "h" ELSE "")
            \o (IF mins # "0" THEN NatString(DivSmall(mins, 60)[2]) \o "m" ELSE "")
            \o NatString(DivSmall(secs, 60)[2]) \o fmtFrac(u, 9) \o "s"

\* unitMap: a unit is mul * 10^zeros nanoseconds
UnitNames == {"ns", "us", "µs", "ms", "s", "m", "h"}
UnitMul(u) == CASE u = "m" -> 6 [] u = "h" -> 36 [] OTHER -> 1
UnitZeros(u) ==
    CASE u = "ns" -> 0
      [] u \in {"us", "µs"} -> 3
      [] u = "ms" -> 6
      [] u = "s" -> 9
      [] u = "m" -> 10
      [] u = "h" -> 11

\* v * unit on a natural v
MulUnit(v, u) ==
    IF MulSmall(v, UnitMul(u)) = "0" THEN "0"
    ELSE MulSmall(v, UnitMul(u)) \o Zeros(UnitZeros(u))

\* how many leading bytes of s are digits
RECURSIVE LeadingDigits(_)
LeadingDigits(s) ==
    IF s # "" /\ IsDigit(At(s, 1)) THEN 1 + LeadingDigits(SubSeq(s, 2, Len(s))) ELSE 0

\* how many leading bytes of s are neither a digit nor "."
RECURSIVE LeadingUnit(_)
LeadingUnit(s) ==
    IF s # "" /\ ~IsDigit(At(s, 1)) /\ At(s, 1) # "."
    THEN 1 + LeadingUnit(SubSeq(s, 2, Len(s))) ELSE 0

\* time's quote of a string without quotes, backslashes or bytes above 0x7f
quote(s) == "\"" \o s \o "\""

DurationError(msg) == [err |-> Errorf(msg), d |-> "0"]
DurationOK(d) == [err |-> NilError, d |-> d]

\* the loop of ParseDuration over the ([0-9]*(\.[0-9]*)?[a-z]+)+ groups of s,
\* d being the nanoseconds summed so far.  The fraction of a group is added
\* as the whole nanoseconds of f * unit / scale, which is what the float64
\* product of the code yields for the fractions of at most nine digits the
\* model reads.
RECURSIVE parseGroups(_, _, _)
parseGroups(s, d, orig) ==
    IF s = "" THEN DurationOK(d)
    ELSE IF ~(At(s, 1) = "." \/ IsDigit(At(s, 1)))
         THEN DurationError("time: invalid duration " \o quote(orig))
    ELSE LET n == LeadingDigits(s)
             v == IF n = 0 THEN "0" ELSE TrimZeros(SubSeq(s, 1, n))
             s1 == SubSeq(s, n + 1, Len(s))
             dot == s1 # "" /\ At(s1, 1) = "."
             s2 == IF dot THEN SubSeq(s1, 2, Len(s1)) ELSE s1
             k == IF dot THEN LeadingDigits(s2) ELSE 0
             f == IF k = 0 THEN "0" ELSE TrimZeros(SubSeq(s2, 1, k))
             s3 == SubSeq(s2, k + 1, Len(s2))
             i == LeadingUnit(s3)
             u == SubSeq(s3, 1, i)
             whole == MulUnit(v, u)
             group == IF f # "0" THEN AddNat(whole, DropDigits(MulUnit(f, u), k))
                      ELSE whole
         IN IF GreaterNat(v, TwoTo63)
            THEN DurationError("time: invalid duration " \o quote(orig))
            ELSE IF n = 0 /\ k = 0
            THEN DurationError("time: invalid duration " \o quote(orig))
            ELSE IF i = 0
            THEN DurationError("time: missing unit in duration " \o quote(orig))
            ELSE IF u \notin UnitNames
            THEN DurationError("time: unknown unit " \o quote(u) \o " in duration "
                                   \o quote(orig))
            ELSE IF GreaterNat(whole, TwoTo63) \/ GreaterNat(group, TwoTo63)
                    \/ GreaterNat(AddNat(d, group), TwoTo63)
            THEN DurationError("time: invalid duration " \o quote(orig))
            ELSE parseGroups(SubSeq(s3, i + 1, Len(s3)), AddNat(d, group), orig)

\* time.ParseDuration
ParseDuration(orig) ==
    LET signed == orig # "" /\ At(orig, 1) \in {"-", "+"}
        neg == orig # "" /\ At(orig, 1) = "-"
        s == IF signed THEN SubSeq(orig, 2, Len(orig)) ELSE orig
        signOf(sum) ==
            IF sum.err.err THEN sum
            ELSE IF neg THEN DurationOK(Negate(sum.d))
            ELSE IF sum.d = TwoTo63
                 THEN DurationError("time: invalid duration " \o quote(orig))
            ELSE sum
    IN IF s = "0" THEN DurationOK("0")
       ELSE IF s = "" THEN DurationError("time: invalid duration " \o quote(orig))
       ELSE signOf(parseGroups(s, "0", orig))

(***************************************************************************)
(* encoding/json: the scanner that accepts or rejects a text, and the      *)
(* value json.Unmarshal stores into an interface{}.  A scan returns the    *)
(* position after the value it read, or Fail(p) when the byte at p (or the *)
(* end of the text, when p is beyond it) cannot continue a JSON text.      *)
(***************************************************************************)
Fail(p) == 0 - p

\* the byte at position i of s, nothing beyond its end
Peek(s, i) == IF i \in 1..Len(s) THEN At(s, i) ELSE ""

\* the first position from i on that holds no JSON white space
RECURSIVE skipSpace(_, _)
skipSpace(s, i) ==
    IF i <= Len(s) /\ Peek(s, i) \in {" ", "\t", "\n", "\r"} THEN skipSpace(s, i + 1) ELSE i

\* a string literal whose opening quote is just before i
RECURSIVE stringEnd(_, _)
stringEnd(s, i) ==
    IF i > Len(s) THEN Fail(i)
    ELSE IF Peek(s, i) = "\"" THEN i + 1
    ELSE IF Peek(s, i) = "\\"
         THEN IF i + 1 > Len(s) THEN Fail(i + 1)
              ELSE IF Peek(s, i + 1) \in {"\"", "\\", "/", "b", "f", "n", "r", "t"}
                   THEN stringEnd(s, i + 2)
              ELSE IF Peek(s, i + 1) = "u"
                   THEN LET bad == {k \in 2..5 : i + k > Len(s) \/ ~IsHex(Peek(s, i + k))}
                        IN IF bad = {} THEN stringEnd(s, i + 6)
                           ELSE Fail(i + CHOOSE k \in bad : \A j \in bad : k <= j)
              ELSE Fail(i + 1)
    ELSE IF Peek(s, i) \in ControlBytes THEN Fail(i)
    ELSE stringEnd(s, i + 1)

\* a number literal starting at i: -? (0 | [1-9][0-9]*) (. [0-9]+)? ([eE] [+-]? [0-9]+)?
numberEnd(s, i) ==
    LET j == IF Peek(s, i) = "-" THEN i + 1 ELSE i
        n == LeadingDigits(SubSeq(s, j, Len(s)))
        k == IF Peek(s, j) = "0" THEN j + 1 ELSE j + n
        m == LeadingDigits(SubSeq(s, k + 1, Len(s)))
        f == IF k <= Len(s) /\ Peek(s, k) = "." THEN k + 1 + m ELSE k
        g == IF f + 1 <= Len(s) /\ Peek(s, f + 1) \in {"+", "-"} THEN f + 2 ELSE f + 1
        x == LeadingDigits(SubSeq(s, g, Len(s)))
    IN IF n = 0 THEN Fail(j)
       ELSE IF k <= Len(s) /\ Peek(s, k) = "." /\ m = 0 THEN Fail(k + 1)
       ELSE IF f <= Len(s) /\ Peek(s, f) \in {"e", "E"}
            THEN IF x = 0 THEN Fail(g) ELSE g + x
       ELSE f

\* the literal word (true, false, null) starting at i
literalEnd(s, i, word) ==
    LET bad == {k \in 1..Len(word) : i + k - 1 > Len(s) \/ Peek(s, i + k - 1) # Peek(word, k)}
    IN IF bad = {} THEN i + Len(word)
       ELSE Fail(i - 1 + CHOOSE k \in bad : \A j \in bad : k <= j)

RECURSIVE valueEnd(_, _)
RECURSIVE elementsEnd(_, _)
RECURSIVE membersEnd(_, _)

\* the value starting at i
valueEnd(s, i) ==
    IF i > Len(s) THEN Fail(i)
    ELSE CASE Peek(s, i) = "\"" -> stringEnd(s, i + 1)
           [] Peek(s, i) = "-" \/ IsDigit(Peek(s, i)) -> numberEnd(s, i)
           [] Peek(s, i) = "t" -> literalEnd(s, i, "true")
           [] Peek(s, i) = "f" -> literalEnd(s, i, "false")
           [] Peek(s, i) = "n" -> literalEnd(s, i, "null")
           [] Peek(s, i) = "[" ->
                  IF Peek(s, skipSpace(s, i + 1)) = "]" THEN skipSpace(s, i + 1) + 1
                  ELSE elementsEnd(s, skipSpace(s, i + 1))
           [] Peek(s, i) = "{" ->
                  IF Peek(s, skipSpace(s, i + 1)) = "}" THEN skipSpace(s, i + 1) + 1
                  ELSE membersEnd(s, skipSpace(s, i + 1))
           [] OTHER -> Fail(i)

\* the elements of an array from i to its closing bracket
elementsEnd(s, i) ==
    LET e == valueEnd(s, i)
        j == skipSpace(s, e)
    IN IF e < 0 THEN e
       ELSE IF Peek(s, j) = "," THEN elementsEnd(s, skipSpace(s, j + 1))
       ELSE IF Peek(s, j) = "]" THEN j + 1
       ELSE Fail(j)

\* the members of an object from i to its closing brace
membersEnd(s, i) ==
    LET e == stringEnd(s, i + 1)
        j == skipSpace(s, e)
        v == valueEnd(s, skipSpace(s, j + 1))
        k == skipSpace(s, v)
    IN IF Peek(s, i) # "\"" THEN Fail(i)
       ELSE IF e < 0 THEN e
       ELSE IF Peek(s, j) # ":" THEN Fail(j)
       ELSE IF v < 0 THEN v
       ELSE IF Peek(s, k) = "," THEN membersEnd(s, skipSpace(s, k + 1))
       ELSE IF Peek(s, k) = "}" THEN k + 1
       ELSE Fail(k)

\* the text of a *json.SyntaxError for the byte at p; the words the scanner
\* adds about where it stood ("looking for beginning of value") are left out
SyntaxError(s, p) ==
    IF p > Len(s) THEN Errorf("unexpected end of JSON input")
    ELSE Errorf("invalid character '"
                    \o (CASE Peek(s, p) = "'" -> "\\'"
                          [] Peek(s, p) = "\t" -> "\\t"
                          [] Peek(s, p) = "\n" -> "\\n"
                          [] Peek(s, p) = "\r" -> "\\r"
                          [] OTHER -> Peek(s, p))
                    \o "'")

\* checkValid: one value, white space around it, nothing else
checkValid(data) ==
    LET scanned(e, next) ==
            IF e < 0 THEN SyntaxError(data, 0 - e)
            ELSE IF next <= Len(data) THEN SyntaxError(data, next)
            ELSE NilError
    IN scanned(valueEnd(data, skipSpace(data, 1)),
               skipSpace(data, valueEnd(data, skipSpace(data, 1))))

\* json.Unmarshal(data, &v) for v an interface{}: the error, or the Go type
\* of the value stored in v and the text of the literal it was read from
jsonUnmarshal(data) ==
    LET typeOf(c) ==
            CASE c = "\"" -> "string"
              [] c \in {"t", "f"} -> "bool"
              [] c = "n" -> "nil"
              [] c = "[" -> "[]interface{}"
              [] c = "{" -> "map[string]interface{}"
              [] OTHER -> "float64"
        store(err, i) ==
            IF err.err THEN [err |-> err, type |-> "", text |-> ""]
            ELSE [err |-> NilError, type |-> typeOf(Peek(data, i)),
                  text |-> SubSeq(data, i, valueEnd(data, i) - 1)]
    IN store(checkValid(data), skipSpace(data, 1))

\* the rune of a \uXXXX escape: the runes the encoder escapes and those
\* unitMap knows beyond ASCII; no other escape is among the texts decoded
UnicodeRune(hex) ==
    CASE ToLower(hex) = "00b5" -> "µ"
      [] ToLower(hex) = "03bc" -> "μ"
      [] ToLower(hex) = "003c" -> "<"
      [] ToLower(hex) = "003e" -> ">"
      [] ToLower(hex) = "0026" -> "&"
      [] OTHER -> "\\u" \o hex

\* unquote: the string a literal stands for, s being the text between its quotes
RECURSIVE unquote(_)
unquote(s) ==
    IF s = "" THEN ""
    ELSE IF At(s, 1) # "\\" THEN At(s, 1) \o unquote(SubSeq(s, 2, Len(s)))
    ELSE IF At(s, 2) = "u" THEN UnicodeRune(SubSeq(s, 3, 6)) \o unquote(SubSeq(s, 7, Len(s)))
    ELSE (CASE At(s, 2) = "n" -> "\n"
            [] At(s, 2) = "r" -> "\r"
            [] At(s, 2) = "t" -> "\t"
            [] At(s, 2) = "f" -> "\f"
            [] OTHER -> At(s, 2))
         \o unquote(SubSeq(s, 3, Len(s)))

\* json.Marshal of a string: quoted, with the escapes of the encoder
RECURSIVE encodeString(_)
encodeString(s) ==
    IF s = "" THEN ""
    ELSE (CASE At(s, 1) \in {"\"", "\\"} -> "\\" \o At(s, 1)
            [] At(s, 1) = "\n" -> "\\n"
            [] At(s, 1) = "\r" -> "\\r"
            [] At(s, 1) = "\t" -> "\\t"
            [] At(s, 1) = "<" -> "\\u003c"
            [] At(s, 1) = ">" -> "\\u003e"
            [] At(s, 1) = "&" -> "\\u0026"
            [] OTHER -> At(s, 1))
         \o encodeString(SubSeq(s, 2, Len(s)))

\* the value of a short string of digits
RECURSIVE Atoi(_)
Atoi(s) == IF s = "" THEN 0 ELSE 10 * Atoi(SubSeq(s, 1, Len(s) - 1)) + DigitVal(At(s, Len(s)))

\* the builds whose conversion of a float64 beyond int64 differs
Builds == {"amd64", "arm64"}
MinInt64 == "-9223372036854775808"
MaxInt64 == "9223372036854775807"

\* time.Duration(value) for the float64 value a number literal decodes to:
\* the literal's digits with the decimal point moved by the exponent, rounded
\* to a float64 and truncated towards zero.  The whole part is rounded where
\* the code rounds the whole number, which is the same float64 for a literal
\* of at most 15 significant digits, and for any literal without a fraction.
\* Beyond int64 the result is the build's: amd64 yields the least int64,
\* arm64 the nearest one.
Float64ToDuration(text, arch) ==
    LET neg == HasPrefix(text, "-")
        body == IF neg THEN SubSeq(text, 2, Len(text)) ELSE text
        n == LeadingDigits(body)
        m == IF Peek(body, n + 1) = "." THEN LeadingDigits(SubSeq(body, n + 2, Len(body)))
             ELSE 0
        f == IF m = 0 THEN n + 1 ELSE n + m + 2
        g == IF Peek(body, f + 1) \in {"+", "-"} THEN f + 2 ELSE f + 1
        exp == IF f > Len(body) THEN 0
               ELSE IF Peek(body, f + 1) = "-" THEN 0 - Atoi(SubSeq(body, g, Len(body)))
               ELSE Atoi(SubSeq(body, g, Len(body)))
        mantissa == TrimZeros(SubSeq(body, 1, n) \o SubSeq(body, n + 2, n + 1 + m))
        whole == IF exp - m < 0 THEN DropDigits(mantissa, m - exp)
                 ELSE IF mantissa = "0" THEN "0"
                 ELSE mantissa \o Zeros(exp - m)
        convert(value) ==
            IF neg /\ GreaterNat(value, TwoTo63) THEN MinInt64
            ELSE IF ~neg /\ ~GreaterNat(TwoTo63, value)
                 THEN (IF arch = "amd64" THEN MinInt64 ELSE MaxInt64)
            ELSE IF neg THEN Negate(value)
            ELSE value
    IN convert(RoundToFloat64(whole))

(***************************************************************************)
(* Duration: the JSON codec.                                               *)
(***************************************************************************)
\* (d Duration) MarshalJSON: the JSON string of time.Duration(d).String()
MarshalJSON(d) == [b |-> "\"" \o encodeString(DurationString(d)) \o "\"", err |-> NilError]

\* a variant of UnmarshalJSON that assigns the zero Duration when it fails
UnmarshalJSONZeroOnError(b, prev, arch) ==
    LET parsed(tmp) ==
            IF tmp.err.err THEN [d |-> "0", err |-> tmp.err]
            ELSE [d |-> tmp.d, err |-> NilError]
        switch(v) ==
            IF v.err.err THEN [d |-> "0", err |-> v.err]
            ELSE IF v.type = "float64"
                 THEN [d |-> Float64ToDuration(v.text, arch), err |-> NilError]
            ELSE IF v.type = "string"
                 THEN parsed(ParseDuration(unquote(SubSeq(v.text, 2, Len(v.text) - 1))))
            ELSE [d |-> "0", err |-> Errorf("invalid duration")]
    IN switch(jsonUnmarshal(b))

\* (d *Duration) UnmarshalJSON(b): the error returned and the Duration d
\* points to afterwards, prev being the one it pointed to before
UnmarshalJSON(b, prev, arch) ==
    LET parsed(tmp) ==
            IF tmp.err.err THEN [d |-> prev, err |-> tmp.err]
            ELSE [d |-> tmp.d, err |-> NilError]
        switch(v) ==
            IF v.err.err THEN [d |-> prev, err |-> v.err]
            ELSE IF v.type = "float64"
                 THEN [d |-> Float64ToDuration(v.text, arch), err |-> NilError]
            ELSE IF v.type = "string"
                 THEN parsed(ParseDuration(unquote(SubSeq(v.text, 2, Len(v.text) - 1))))
            ELSE [d |-> prev, err |-> Errorf("invalid duration")]
    IN switch(jsonUnmarshal(b))

\* Durations marshalled: zero, each unit of String and its fractions, both
\* signs, a value float64 cannot hold, and the ends of int64
DurationInputs ==
    {"0", "1", "999", "1000", "1500", "999999", "1000000", "1234567", "999999999",
     "1000000000", "1500000000", "59999999999", "60000000000", "90000000000",
     "300000000000", "3600000000000", "3600500000000", "3661000000001",
     "9007199254740993", MaxInt64, "-1", "-1500", "-90000000000", MinInt64}

\* JSON numbers decoded
NumberInputs ==
    {"0", "-0", "1", "-1", "1500", "90000000000", " 90000000000 ", "-90000000000",
     "9007199254740992", "9007199254740993", "-9007199254740993", MaxInt64, MinInt64,
     "1.5", "9e10", "1.5e3"}

\* JSON strings decoded: durations as a client writes them, and strings
\* ParseDuration rejects
StringInputs ==
    {"\"90s\"", "\"1h30m\"", "\"1.5h\"", "\"-2m\"", "\"1\\u00b5s\"", "\"1us\"", " \"5m0s\"\n",
     "\"notaduration\"", "\"90\"", "\"1x\"", "\"\"", "\"5 m\"", "\"2562048h\"", "\"s\""}

\* the other JSON values, and texts that are not JSON
OtherInputs ==
    {"true", "false", "null", "[]", "[90]", "{}", "{\"d\": \"90s\"}",
     "", "90s", "1m30s", "\"90s", "tru", "[90", "{\"d\": }", "01", "'90s'", "nil"}

\* the Duration a decode target holds beforehand
PreviousDurations == {"0", "5000000000", "-1"}

InitDuration ==
    /\ IdleAlert
    /\ IdleCondition
    /\ IdleURL
    /\ duration \in DurationInputs
    /\ bytes \in NumberInputs \cup StringInputs \cup OtherInputs
    /\ target \in PreviousDurations
    /\ durLog = NoDurationCall

\* bytes, err := duration.MarshalJSON()
CallMarshalJSON ==
    /\ bytes' = MarshalJSON(duration).b
    /\ durLog' = [fn |-> "MarshalJSON", data |-> MarshalJSON(duration).b, prev |-> target,
                  err |-> MarshalJSON(duration).err]
    /\ UNCHANGED <<alertVars, condVars, urlVars, duration, target>>

\* err := (&target).UnmarshalJSON(bytes), on either build
CallUnmarshalJSON ==
    \E arch \in Builds : \E r \in {UnmarshalJSON(bytes, target, arch)} :
        /\ target' = r.d
        /\ durLog' = [fn |-> "UnmarshalJSON", data |-> bytes, prev |-> target, err |-> r.err]
        /\ UNCHANGED <<alertVars, condVars, urlVars, duration, bytes>>

NextDuration ==
    \/ CallMarshalJSON
    \/ CallUnmarshalJSON

NextAlert == \E ts \in Times : SendAlerts(ts)

NextCondition ==
    \/ CallCompareOpValidate
    \/ CallMatchTypeValidate
    \/ CallValidate
    \/ CallGetSelectedQueryName

SpecAlert == InitAlert /\ [][NextAlert]_vars

SpecCondition == InitCondition /\ [][NextCondition]_vars

SpecURL == InitURL /\ [][NextURL]_vars

SpecDuration == InitDuration /\ [][NextDuration]_vars


(***************************************************************************)
(* Claims about needsSending (SpecAlert).                                  *)
(***************************************************************************)

\* C1: needsSending equals the three-step decision: false for a Pending
\* alert; otherwise true when ResolvedAt is strictly after LastSentAt;
\* otherwise true exactly when LastSentAt + resendDelay is strictly before now.
C1_ThreeStepDecision ==
    sendLog.called =>
        sendLog.result =
            (IF sendLog.seen.State = "pending" THEN FALSE
             ELSE IF sendLog.seen.ResolvedAt > sendLog.seen.LastSentAt THEN TRUE
             ELSE sendLog.seen.LastSentAt + resendDelay < sendLog.ts)

\* a Pending alert whose resolution was never announced and whose resend
\* delay has long passed is still not selected
C1_Witness ==
    /\ sendLog.called
    /\ sendLog.seen.State = "pending"
    /\ sendLog.seen.ResolvedAt > sendLog.seen.LastSentAt
    /\ sendLog.seen.LastSentAt + resendDelay < sendLog.ts
    /\ ~sendLog.result

\* the case C2 and C3 are about: a Firing alert whose resolution, if any, has
\* been announced
FiringAnnounced ==
    /\ sendLog.called
    /\ sendLog.seen.State = "firing"
    /\ sendLog.seen.ResolvedAt <= sendLog.seen.LastSentAt

\* C2 as stated: for a Firing alert with ResolvedAt not after LastSentAt,
\* needsSending is false when now < LastSentAt + resendDelay and true when
\* now >= LastSentAt + resendDelay, the boundary instant included.
C2_TrueFromBoundary ==
    FiringAnnounced =>
        (sendLog.result <=> sendLog.ts >= sendLog.seen.LastSentAt + resendDelay)

\* C2 as amended: for a Firing alert with ResolvedAt not after LastSentAt,
\* needsSending is false when now <= LastSentAt + resendDelay, the boundary
\* instant included, and true when now > LastSentAt + resendDelay.
C2_TrueAfterBoundary ==
    FiringAnnounced =>
        (sendLog.result <=> sendLog.ts > sendLog.seen.LastSentAt + resendDelay)

\* a call at the boundary instant, which is not selected
C2_Witness ==
    /\ FiringAnnounced
    /\ sendLog.ts = sendLog.seen.LastSentAt + resendDelay
    /\ ~sendLog.result

\* C3: while the alert stays Firing with its resolution announced, two
\* consecutive cycles that select it are more than resendDelay apart.
C3_ResendNoMoreOftenThanDelay ==
    (FiringAnnounced /\ sendLog.result /\ sendLog.sends = 2) =>
        sendLog.ts - sendLog.prevSendAt > resendDelay

\* a second selection of a Firing alert under a positive resend delay
C3_Witness ==
    /\ FiringAnnounced
    /\ sendLog.result
    /\ sendLog.sends = 2
    /\ resendDelay > 0
    /\ sendLog.prevSendAt > 0

(***************************************************************************)
(* Claims about the enumerations and RuleCondition (SpecCondition).        *)
(***************************************************************************)

\* the error text names every supported CompareOp / MatchType
ListsCompareOps(msg) ==
    \A d \in {"ValueIsAbove", "ValueIsBelow", "ValueIsEq", "ValueIsNotEq",
              "ValueAboveOrEq", "ValueBelowOrEq", "ValueOutsideBounds"} :
        Contains(msg, d)
ListsMatchTypes(msg) ==
    \A d \in {"AtleastOnce", "AllTheTimes", "OnAverage", "InTotal", "Last"} :
        Contains(msg, d)

\* C4: CompareOp.Validate succeeds exactly for the codes "1".."7" and
\* MatchType.Validate exactly for the codes "1".."5"; for every other string,
\* the none code "0" and the empty string included, each returns an error
\* that lists the supported values.
C4_ValidateOnlyNonNone ==
    /\ ret.fn = "CompareOp.Validate" =>
          IF rc[1].CompareOp \in {"1", "2", "3", "4", "5", "6", "7"}
          THEN ~ret.err.err
          ELSE ret.err.err /\ ListsCompareOps(ret.err.msg)
    /\ ret.fn = "MatchType.Validate" =>
          IF rc[1].MatchType \in {"1", "2", "3", "4", "5"}
          THEN ~ret.err.err
          ELSE ret.err.err /\ ListsMatchTypes(ret.err.msg)

ValidCompareOpCode(co) == co \in {"1", "2", "3", "4", "5", "6", "7"}
ValidMatchTypeCode(mt) == mt \in {"1", "2", "3", "4", "5"}

\* C5: Validate returns CompositeQueryRequired without a composite query; for
\* a builder query TargetRequired, then CompareOpRequired or the operator
\* error, then MatchTypeRequired or the match-type error, in that order; a
\* builder condition is accepted only with a Target, a valid non-none
\* CompareOp and a valid non-none MatchType, and a fully populated one whose
\* composite query is valid is accepted.
C5_ValidateBuilder ==
    (ret.fn = "RuleCondition.Validate" /\ rc # <<>>) =>
        LET r == rc[1] IN
        IF r.CompositeQuery = <<>> THEN ret.err = ErrCompositeQueryRequired
        ELSE (r.CompositeQuery[1].QueryType = "builder") =>
            IF r.Target = <<>> THEN ret.err = ErrTargetRequired
            ELSE IF r.CompareOp = "" THEN ret.err = ErrCompareOpRequired
            ELSE IF ~ValidCompareOpCode(r.CompareOp)
                 THEN ret.err.err /\ HasPrefix(ret.err.msg, "invalid compare op")
            ELSE IF r.MatchType = "" THEN ret.err = ErrMatchTypeRequired
            ELSE IF ~ValidMatchTypeCode(r.MatchType)
                 THEN ret.err.err /\ HasPrefix(ret.err.msg, "invalid match type")
            ELSE ret.err = r.CompositeQuery[1].Validation

\* C6: for a non-builder query type Validate returns what the composite
\* query's own validation returns, whatever Target, CompareOp and MatchType.
C6_NonBuilderOnlyComposite ==
    (/\ ret.fn = "RuleCondition.Validate"
     /\ rc # <<>>
     /\ rc[1].CompositeQuery # <<>>
     /\ rc[1].CompositeQuery[1].QueryType # "builder") =>
        ret.err = rc[1].CompositeQuery[1].Validation

\* a non-builder condition with no Target, an invalid CompareOp and no
\* MatchType is accepted
C6_Witness ==
    /\ ret.fn = "RuleCondition.Validate"
    /\ rc # <<>>
    /\ rc[1].CompositeQuery # <<>>
    /\ rc[1].CompositeQuery[1].QueryType = "promql"
    /\ rc[1].Target = <<>>
    /\ rc[1].CompareOp = "8"
    /\ rc[1].MatchType = ""
    /\ ret.err = NilError

\* a is before b in byte-wise lexicographic order: they agree on k bytes, and
\* then a ends first or has the smaller byte
LexBefore(a, b) ==
    \E k \in 0..Len(a) :
        /\ k <= Len(b)
        /\ SubSeq(a, 1, k) = SubSeq(b, 1, k)
        /\ \/ k = Len(a) /\ k < Len(b)
           \/ k < Len(a) /\ k < Len(b) /\ Code(At(a, k + 1)) < Code(At(b, k + 1))

\* the sub-query names of the condition's query type
SubQueryNames(r) ==
    IF r.CompositeQuery[1].QueryType = "builder"
    THEN r.CompositeQuery[1].BuilderQueries
    ELSE r.CompositeQuery[1].ClickHouseQueries

\* C7: GetSelectedQueryName on a non-nil condition returns the explicit
\* SelectedQuery when set, even if F1 exists; otherwise, over the builder
\* (builder type) or SQL (SQL type) sub-query names, "F1" when present and
\* else the lexicographically greatest name.
C7_SelectedQueryName ==
    (ret.fn = "RuleCondition.GetSelectedQueryName" /\ rc # <<>>) =>
        LET r == rc[1] IN
        IF r.SelectedQuery # "" THEN ~ret.panic /\ ret.value = r.SelectedQuery
        ELSE (/\ r.CompositeQuery # <<>>
              /\ r.CompositeQuery[1].QueryType \in {"builder", "clickhouse_sql"}
              /\ SubQueryNames(r) # {}) =>
                 /\ ~ret.panic
                 /\ IF "F1" \in SubQueryNames(r) THEN ret.value = "F1"
                    ELSE /\ ret.value \in SubQueryNames(r)
                         /\ \A n \in SubQueryNames(r) :
                               n = ret.value \/ LexBefore(n, ret.value)

\* without a selection and without F1, "F2" is returned although "F10" and
\* other names are present
C7_Witness ==
    /\ ret.fn = "RuleCondition.GetSelectedQueryName"
    /\ rc # <<>>
    /\ rc[1].SelectedQuery = ""
    /\ rc[1].CompositeQuery # <<>>
    /\ rc[1].CompositeQuery[1].QueryType = "clickhouse_sql"
    /\ {"F10", "F2", "C"} \subseteq rc[1].CompositeQuery[1].ClickHouseQueries
    /\ "a" \in rc[1].CompositeQuery[1].BuilderQueries
    /\ ret.value = "F2"

\* C8: for every non-nil RuleCondition GetSelectedQueryName completes and
\* returns a non-empty name; the empty string is returned only for nil.
C8_NonNilReturnsName ==
    ret.fn = "RuleCondition.GetSelectedQueryName" =>
        /\ ~ret.panic
        /\ (ret.value = "" <=> rc = <<>>)


(***************************************************************************)
(* Claims about prepareRuleGeneratorURL (SpecURL).                         *)
(***************************************************************************)

\* "new" occurs in s at the 0-based index i
NewAt(s, i) == i >= 0 /\ i + 3 <= Len(s) /\ SubSeq(s, i + 1, i + 3) = "new"
HasNew(s) == \E i \in 0..Len(s) : NewAt(s, i)

\* C9: for every ruleId and every non-empty source that parses, the result is
\* the prefix of the source before the last "new" followed by
\* "edit?ruleId=<ruleId>" when the source contains "new", and otherwise
\* "scheme://host[:port]/alerts/edit?ruleId=<ruleId>" from the source's
\* scheme, host and port, its path and query discarded.
C9_GeneratorURL ==
    generatorURL.called =>
        \A e \in BuiltSources \cup OtherSources :
            e.source = source =>
                IF HasNew(source)
                THEN \E i \in 0..Len(source) :
                        /\ NewAt(source, i)
                        /\ \A j \in (i + 1)..Len(source) : ~NewAt(source, j)
                        /\ generatorURL.value =
                               SubSeq(source, 1, i) \o "edit?ruleId=" \o ruleId
                ELSE generatorURL.value =
                         e.scheme \o "://" \o e.host
                             \o (IF e.port # "" THEN ":" \o e.port ELSE "")
                             \o "/alerts/edit?ruleId=" \o ruleId

\* a source with "new" in its host, its path and its query: only the last
\* one is replaced
C9_WitnessNew ==
    /\ generatorURL.called
    /\ source = "http://news.io:3301/renew/alerts/new?q=new"
    /\ generatorURL.value = "http://news.io:3301/renew/alerts/new?q=edit?ruleId=" \o ruleId

\* a source without "new", with a port, a path, a query and a fragment
C9_WitnessRebuilt ==
    /\ generatorURL.called
    /\ source = "https://app.example.com:3301/alerts/list?x=1#top"
    /\ ruleId = "r1"
    /\ generatorURL.value = "https://app.example.com:3301/alerts/edit?ruleId=r1"

\* the sources of the model that are not valid URLs
NotValidURLs == RejectedSources \cup {"not a url"}

\* C10: for an empty source and for every source that is not a valid URL
\* (such as "not a url") the result is the empty string, for every ruleId.
C10_SoftFailure ==
    (generatorURL.called /\ (source = "" \/ source \in NotValidURLs)) =>
        generatorURL.value = ""

(***************************************************************************)
(* Claims about the Duration codec (SpecDuration).                         *)
(***************************************************************************)
\* the latest call decoded data
Decoded(data) == durLog.fn = "UnmarshalJSON" /\ durLog.data = data

\* data is a JSON number written as an integer of int64
IsIntegerNumber(data) ==
    /\ jsonUnmarshal(data).type = "float64"
    /\ LeadingDigits(Magnitude(jsonUnmarshal(data).text)) = Len(Magnitude(jsonUnmarshal(data).text))

\* the int64 an integer literal denotes
IntegerOf(text) == IF Magnitude(text) = "0" THEN "0" ELSE text

\* decoding what MarshalJSON wrote for a Duration succeeds and yields it
RoundTripsThroughString ==
    Decoded(MarshalJSON(duration).b) => ~durLog.err.err /\ target = duration

\* decoding the JSON number n succeeds and yields n nanoseconds
NumberIsNanoseconds ==
    (durLog.fn = "UnmarshalJSON" /\ IsIntegerNumber(durLog.data))
        => ~durLog.err.err /\ target = IntegerOf(jsonUnmarshal(durLog.data).text)

\* C11: for every Duration d, UnmarshalJSON of MarshalJSON(d) succeeds and
\* yields d; and UnmarshalJSON of a JSON number n yields the Duration of n
\* nanoseconds.
C11_DurationRoundTrip == RoundTripsThroughString /\ NumberIsNanoseconds

\* data is neither a JSON number nor a JSON string that ParseDuration accepts
NotDecodable(data) ==
    \/ jsonUnmarshal(data).err.err
    \/ jsonUnmarshal(data).type \notin {"float64", "string"}
    \/ /\ jsonUnmarshal(data).type = "string"
       /\ ParseDuration(unquote(SubSeq(jsonUnmarshal(data).text, 2,
                                       Len(jsonUnmarshal(data).text) - 1))).err.err

\* C12, as stated: UnmarshalJSON of an input that is neither a JSON number
\* nor a parseable duration string returns the "invalid duration" error and
\* leaves the target Duration at its previous value.
C12_InvalidDurationError ==
    (durLog.fn = "UnmarshalJSON" /\ NotDecodable(durLog.data))
        => durLog.err = Errorf("invalid duration") /\ target = durLog.prev

\* C12, amended: UnmarshalJSON of such an input returns an error and leaves
\* the target Duration at its previous value; the error is "invalid duration"
\* for a boolean, null, an array or an object, the syntax error of
\* json.Unmarshal for a text that is not JSON, and the error of
\* time.ParseDuration for a string it rejects.
C12_FailsClosed ==
    (durLog.fn = "UnmarshalJSON" /\ NotDecodable(durLog.data))
        => /\ durLog.err.err
           /\ target = durLog.prev
           /\ durLog.err =
                  IF checkValid(durLog.data).err THEN checkValid(durLog.data)
                  ELSE IF jsonUnmarshal(durLog.data).type = "string"
                       THEN ParseDuration(unquote(SubSeq(jsonUnmarshal(durLog.data).text, 2,
                                Len(jsonUnmarshal(durLog.data).text) - 1))).err
                  ELSE Errorf("invalid duration")

\* a string ParseDuration rejects was decoded into a target that held five
\* seconds, and holds them still
C12_Witness ==
    /\ Decoded("\"notaduration\"")
    /\ durLog.prev = "5000000000"
    /\ target = "5000000000"
    /\ durLog.err = Errorf("time: invalid duration \"notaduration\"")

=============================================================================
